---- MODULE Spec2Model ----
(***************************************************************************)
(* Model of the command gate of src/main.py: the validator                 *)
(* is_command_safe (tokenizing with shlex.split in POSIX mode), the        *)
(* portfolio short-circuit handle_portfolio_command and the request        *)
(* handler run_command with the child process it runs under a timeout.     *)
(*                                                                         *)
(* Python strings are TLA+ strings; a character is a string of length 1.   *)
(* The backquote cannot be written in a TLA+ string literal, so the        *)
(* alphabet of the inputs leaves it out.                                   *)
(***************************************************************************)
EXTENDS Integers, Sequences, FiniteSets, TLC

VARIABLES pc, data, outcome, calls, response, nresponses, child, clock

vars == <<pc, data, outcome, calls, response, nresponses, child, clock>>

(***************************************************************************)
(* Bounds                                                                  *)
(***************************************************************************)
\* number of pieces a raw string handed to is_command_safe is built from
MaxPieces == 3
\* number of pieces the command of a request is built from
MaxCmdPieces == 2
\* number of output chunks a child writes before it stops writing
MaxChunks == 1

(***************************************************************************)
(* str methods                                                             *)
(***************************************************************************)
Char(s, i) == SubSeq(s, i, i)

\* the characters str.strip() removes, among those of the alphabet
StripChars == {" ", "\t", "\n", "\r", "\f"}

Min(S) == CHOOSE m \in S : \A n \in S : m <= n

Max(S) == CHOOSE m \in S : \A n \in S : n <= m

strip(s) ==
    LET keep == {i \in 1..Len(s) : Char(s, i) \notin StripChars}
    IN  IF keep = {} THEN "" ELSE SubSeq(s, Min(keep), Max(keep))

startswith(s, prefix) ==
    /\ Len(prefix) <= Len(s)
    /\ SubSeq(s, 1, Len(prefix)) = prefix

\* sub in s
contains(s, sub) ==
    \E i \in 1..(Len(s) - Len(sub) + 1) : SubSeq(s, i, i + Len(sub) - 1) = sub

UpperToLower ==
    [c \in {"A", "B", "C", "D", "E", "F", "G", "H", "I", "J", "K", "L", "M",
            "N", "O", "P", "Q", "R", "S", "T", "U", "V", "W", "X", "Y", "Z"} |->
        CASE c = "A" -> "a" [] c = "B" -> "b" [] c = "C" -> "c" [] c = "D" -> "d"
          [] c = "E" -> "e" [] c = "F" -> "f" [] c = "G" -> "g" [] c = "H" -> "h"
          [] c = "I" -> "i" [] c = "J" -> "j" [] c = "K" -> "k" [] c = "L" -> "l"
          [] c = "M" -> "m" [] c = "N" -> "n" [] c = "O" -> "o" [] c = "P" -> "p"
          [] c = "Q" -> "q" [] c = "R" -> "r" [] c = "S" -> "s" [] c = "T" -> "t"
          [] c = "U" -> "u" [] c = "V" -> "v" [] c = "W" -> "w" [] c = "X" -> "x"
          [] c = "Y" -> "y" [] c = "Z" -> "z"]

LowerChar(c) == IF c \in DOMAIN UpperToLower THEN UpperToLower[c] ELSE c

\* the first i characters of s, in lower case
RECURSIVE LowerPrefix(_, _)
LowerPrefix(s, i) ==
    IF i = 0 THEN "" ELSE LowerPrefix(s, i - 1) \o LowerChar(Char(s, i))

lower(s) == LowerPrefix(s, Len(s))

(***************************************************************************)
(* shlex.split(s): shlex(s, posix=True) with whitespace_split = True and   *)
(* no commenters, iterated to the end.  The result is the token list, or   *)
(* error = TRUE where shlex raises ValueError.                             *)
(***************************************************************************)
ShlexWhitespace == {" ", "\t", "\r", "\n"}

ShlexQuotes == {"'", "\""}

ShlexEscape == {"\\"}

ShlexEscapedQuotes == {"\""}

\* The lexer between two characters: self.state, and read_token's
\* escapedstate, token and quoted; parts are the tokens returned so far.
\* error: ValueError was raised; done: read_token returned None.
ShlexStart ==
    [state |-> " ", escapedstate |-> " ", token |-> "", quoted |-> FALSE,
     parts |-> <<>>, error |-> FALSE, done |-> FALSE]

\* read_token breaks out of its loop: a token that is empty and was not
\* quoted is None, which ends the iteration; any other token is appended to
\* the list and the next read_token starts in state `state`.
ShlexEmit(lx, state) ==
    IF ~lx.quoted /\ lx.token = ""
    THEN [lx EXCEPT !.state = state, !.done = TRUE]
    ELSE [lx EXCEPT !.state = state, !.escapedstate = " ", !.token = "",
                    !.quoted = FALSE, !.parts = Append(lx.parts, lx.token)]

\* a whitespace character outside quotes
ShlexSpace(lx) ==
    IF lx.token # "" \/ lx.quoted
    THEN ShlexEmit(lx, " ")
    ELSE [lx EXCEPT !.state = " "]

\* One iteration of the loop of read_token on the character nextchar.
ShlexStep(lx, nextchar) ==
    CASE lx.state = " " ->
            IF nextchar \in ShlexWhitespace THEN ShlexSpace(lx)
            ELSE IF nextchar \in ShlexEscape
                 THEN [lx EXCEPT !.escapedstate = "a", !.state = nextchar]
            ELSE IF nextchar \in ShlexQuotes
                 THEN [lx EXCEPT !.state = nextchar]
            ELSE [lx EXCEPT !.token = nextchar, !.state = "a"]
      [] lx.state \in ShlexQuotes ->
            IF nextchar = lx.state
                 THEN [lx EXCEPT !.quoted = TRUE, !.state = "a"]
            ELSE IF nextchar \in ShlexEscape /\ lx.state \in ShlexEscapedQuotes
                 THEN [lx EXCEPT !.quoted = TRUE, !.escapedstate = lx.state,
                                 !.state = nextchar]
            ELSE [lx EXCEPT !.quoted = TRUE, !.token = lx.token \o nextchar]
      [] lx.state \in ShlexEscape ->
            LET kept == IF /\ lx.escapedstate \in ShlexQuotes
                           /\ nextchar # lx.state
                           /\ nextchar # lx.escapedstate
                        THEN lx.token \o lx.state ELSE lx.token
            IN  [lx EXCEPT !.token = kept \o nextchar, !.state = lx.escapedstate]
      [] OTHER -> \* state 'a'
            IF nextchar \in ShlexWhitespace THEN ShlexSpace(lx)
            ELSE IF nextchar \in ShlexQuotes
                 THEN [lx EXCEPT !.state = nextchar]
            ELSE IF nextchar \in ShlexEscape
                 THEN [lx EXCEPT !.escapedstate = "a", !.state = nextchar]
            ELSE [lx EXCEPT !.token = lx.token \o nextchar]

\* The loop of read_token at the end of the input: inside quotes or after
\* an escape character it raises ValueError, otherwise the token read so
\* far is returned.
ShlexEof(lx) ==
    IF lx.state \in ShlexQuotes \cup ShlexEscape
    THEN [lx EXCEPT !.error = TRUE]
    ELSE [ShlexEmit(lx, " ") EXCEPT !.done = TRUE]

\* The characters of s from position i on.  The next lexer state is bound
\* as a value before the recursion, so that it is computed once.
RECURSIVE ShlexRun(_, _, _)
ShlexRun(s, i, lx) ==
    IF lx.done THEN lx
    ELSE IF i > Len(s) THEN ShlexEof(lx)
    ELSE CHOOSE end \in {ShlexRun(s, j, next) :
                             j \in {i + 1}, next \in {ShlexStep(lx, Char(s, i))}} : TRUE

shlex_split(s) ==
    LET lx == ShlexRun(s, 1, ShlexStart)
    IN  [error |-> lx.error, parts |-> IF lx.error THEN <<>> ELSE lx.parts]

(***************************************************************************)
(* The policy tables                                                       *)
(***************************************************************************)
SAFE_COMMANDS ==
    [c \in {"ls", "pwd", "whoami", "id", "cat", "head", "tail", "wc", "file",
            "stat", "find", "ps", "top", "jobs", "uname", "uptime", "free",
            "df", "du", "lscpu", "lsblk", "mount", "ping", "host", "nslookup",
            "ifconfig", "ip", "date", "cal", "grep", "sort", "uniq", "cut",
            "env", "printenv", "which", "whereis", "type", "echo", "printf",
            "basename", "dirname", "realpath", "readlink"} |->
        CASE c = "ls"    -> {"-l", "-a", "-la", "-h", "-R", "--color=auto"}
          [] c = "head"  -> {"-n"}
          [] c = "tail"  -> {"-n"}
          [] c = "wc"    -> {"-l", "-w", "-c"}
          [] c = "find"  -> {"-name", "-type", "-maxdepth"}
          [] c = "ps"    -> {"aux", "-ef", "-u"}
          [] c = "top"   -> {"-n"}
          [] c = "uname" -> {"-a", "-r", "-s"}
          [] c = "free"  -> {"-h"}
          [] c = "df"    -> {"-h"}
          [] c = "du"    -> {"-h", "-s"}
          [] c = "ping"  -> {"-c"}
          [] c = "ip"    -> {"addr", "route"}
          [] c = "grep"  -> {"-n", "-i", "-v", "-c"}
          [] c = "cut"   -> {"-d", "-f"}
          [] OTHER       -> {}]

SAFE_READ_PATHS ==
    {"/etc/os-release", "/etc/hostname", "/etc/timezone", "/proc/cpuinfo",
     "/proc/meminfo", "/proc/version", "/proc/uptime", "/proc/loadavg"}

(***************************************************************************)
(* is_command_safe                                                         *)
(***************************************************************************)
\* the character class with the semicolon left out
ForbiddenCharsNoSemicolon == {"&", "|", "$", "(", ")", "{", "}", "\\"}

\* the character class of re.search(r'[;&|`$(){}\\]', arg), without the
\* backquote
ForbiddenChars == {";", "&", "|", "$", "(", ")", "{", "}", "\\"}

re_search_forbidden(arg) == \E i \in 1..Len(arg) : Char(arg, i) \in ForbiddenChars

AlnumChars ==
    {"a", "b", "c", "d", "e", "f", "g", "h", "i", "j", "k", "l", "m",
     "n", "o", "p", "q", "r", "s", "t", "u", "v", "w", "x", "y", "z",
     "A", "B", "C", "D", "E", "F", "G", "H", "I", "J", "K", "L", "M",
     "N", "O", "P", "Q", "R", "S", "T", "U", "V", "W", "X", "Y", "Z",
     "0", "1", "2", "3", "4", "5", "6", "7", "8", "9"}

\* the pattern r'^-' instead: any token that starts with a dash matches
re_match_any_dash(arg) == Len(arg) >= 1 /\ Char(arg, 1) = "-"

\* re.match(r'^-[a-zA-Z0-9]+$', arg); in Python, $ also matches just before
\* a newline that ends the string
re_match_short_flag(arg) ==
    LET body == IF Len(arg) >= 1 /\ Char(arg, Len(arg)) = "\n"
                THEN {SubSeq(arg, 1, Len(arg) - 1), arg} ELSE {arg}
    IN  \E b \in body :
            /\ Len(b) >= 2
            /\ Char(b, 1) = "-"
            /\ \A i \in 2..Len(b) : Char(b, i) \in AlnumChars

\* the cat path checks without the test for '..'
cat_path_rejected_no_dotdot(base_command, arg) ==
    /\ base_command = "cat"
    /\ \/ startswith(arg, "/") /\ arg \notin SAFE_READ_PATHS
       \/ startswith(arg, "~")

\* lines 179-183: the cat path checks reject arg
cat_path_rejected(base_command, arg) ==
    /\ base_command = "cat"
    /\ \/ startswith(arg, "/") /\ arg \notin SAFE_READ_PATHS
       \/ contains(arg, "..")
       \/ startswith(arg, "~")

\* lines 186-191: the flag checks reject arg
flag_rejected(arg, allowed_flags) ==
    /\ startswith(arg, "-")
    /\ arg \notin allowed_flags
    /\ ~ \E flag \in allowed_flags : startswith(arg, flag)
    /\ ~ re_match_short_flag(arg)

Rejected == [is_safe |-> FALSE, is_none |-> TRUE, safe_args |-> <<>>]

Accepted(argv) == [is_safe |-> TRUE, is_none |-> FALSE, safe_args |-> argv]

\* the loop with safe_args.append(arg) inside the flag branch: a token that
\* is not a flag is checked but not appended
RECURSIVE validate_args_flags_only(_, _, _, _, _)
validate_args_flags_only(base_command, allowed_flags, args, i, safe_args) ==
    IF i < Len(args) THEN
        LET arg == args[i + 1]
        IN  IF ~ re_search_forbidden(arg) THEN
                IF cat_path_rejected(base_command, arg) THEN Rejected
                ELSE IF flag_rejected(arg, allowed_flags) THEN Rejected
                ELSE validate_args_flags_only(base_command, allowed_flags, args, i + 1,
                        IF startswith(arg, "-") THEN Append(safe_args, arg)
                                                ELSE safe_args)
            ELSE Rejected
    ELSE Accepted(safe_args)

\* the while loop of lines 173-196, from index i (0-based, as in the code)
RECURSIVE validate_args(_, _, _, _, _)
validate_args(base_command, allowed_flags, args, i, safe_args) ==
    IF i < Len(args) THEN
        LET arg == args[i + 1]
        IN  IF ~ re_search_forbidden(arg) THEN
                IF cat_path_rejected(base_command, arg) THEN Rejected
                ELSE IF flag_rejected(arg, allowed_flags) THEN Rejected
                ELSE validate_args(base_command, allowed_flags, args, i + 1,
                                   Append(safe_args, arg))
            ELSE Rejected
    ELSE Accepted(safe_args)

\* is_command_safe without the allowlist test of line 165: a command that
\* is not in the table is validated with no allowed flags
is_command_safe_no_allowlist(command) ==
    LET lexed == shlex_split(strip(command))
        parts == lexed.parts
    IN  IF lexed.error THEN Rejected
        ELSE IF parts = <<>> THEN Accepted(<<>>)
        ELSE LET base_command == parts[1]
                 args == IF Len(parts) > 1 THEN SubSeq(parts, 2, Len(parts)) ELSE <<>>
             IN  validate_args(base_command,
                               IF base_command \in DOMAIN SAFE_COMMANDS
                               THEN SAFE_COMMANDS[base_command] ELSE {},
                               args, 0, <<base_command>>)

is_command_safe(command) ==
    LET lexed == shlex_split(strip(command))
        parts == lexed.parts
    IN  IF lexed.error THEN Rejected
        ELSE IF parts = <<>> THEN Accepted(<<>>)
        ELSE LET base_command == parts[1]
                 args == IF Len(parts) > 1 THEN SubSeq(parts, 2, Len(parts)) ELSE <<>>
             IN  IF base_command \notin DOMAIN SAFE_COMMANDS THEN Rejected
                 ELSE validate_args(base_command, SAFE_COMMANDS[base_command],
                                    args, 0, <<base_command>>)

(***************************************************************************)
(* Inputs                                                                  *)
(***************************************************************************)
\* The raw strings handed to is_command_safe are the concatenations of at
\* most MaxPieces of these pieces.
Pieces ==
    {"ls ", "cat ", "pwd ", "rm ", " ", "-", "-l", "a", ";", "\\", "'", "\"",
     "..", "~", "/etc/hostname", "/etc/passwd", "ping -c 3 example.com",
     "echo hi; rm -rf /", "'-l\n'"}

RECURSIVE Concats(_, _)
Concats(pieces, k) ==
    IF k = 0 THEN {""}
    ELSE LET shorter == Concats(pieces, k - 1)
         IN  shorter \cup {p \o s : p \in pieces, s \in shorter}

RawInputs == Concats(Pieces, MaxPieces)

NoOutcome == [is_safe |-> FALSE, is_none |-> FALSE, safe_args |-> <<>>]

NoResponse == [code |-> 0, output |-> "", status |-> 0]

NoChild == [argv |-> <<>>, alive |-> FALSE, stdout |-> "", stderr |-> ""]

(***************************************************************************)
(* The validator on its own: is_command_safe applied to a raw string       *)
(***************************************************************************)
InitValidate ==
    /\ pc = "raw"
    /\ data \in [kind : {"string"}, command : RawInputs]
    /\ outcome = NoOutcome
    /\ calls = <<>>
    /\ response = NoResponse
    /\ nresponses = 0
    /\ child = NoChild
    /\ clock = 0

Validate ==
    /\ pc = "raw"
    /\ pc' = "validated"
    /\ outcome' = is_command_safe(data.command)
    /\ calls' = Append(calls, "is_command_safe")
    /\ UNCHANGED <<data, response, nresponses, child, clock>>

NextValidate == Validate

SpecValidate == InitValidate /\ [][NextValidate]_vars

(***************************************************************************)
(* handle_portfolio_command                                                *)
(***************************************************************************)
\* The texts of portfolio_data, and the formatted date, are abbreviated to
\* these stand-ins; 'resume' and 'skills' are prefixed as in the code.
portfolio_data ==
    [k \in {"about", "resume", "skills", "projects", "contact", "education",
            "experience", "achievements"} |-> "<" \o k \o ">"]

NotPortfolio == [is_portfolio_cmd |-> FALSE, output |-> ""]

Portfolio(output) == [is_portfolio_cmd |-> TRUE, output |-> output]

handle_portfolio_command(command) ==
    LET command_lower == strip(lower(command))
    IN  IF command_lower = "resume"
            THEN Portfolio("My Resume: " \o portfolio_data["resume"])
        ELSE IF command_lower = "skills"
            THEN Portfolio("Technical Skills:\n" \o portfolio_data["skills"])
        ELSE IF command_lower \in DOMAIN portfolio_data
            THEN Portfolio(portfolio_data[command_lower])
        ELSE IF command_lower = "date"
            THEN Portfolio("<now>")
        ELSE IF startswith(command_lower, "echo ")
            THEN LET echo_text == SubSeq(command, 6, Len(command))
                 IN  Portfolio(IF strip(echo_text) # "" THEN echo_text ELSE "")
        ELSE IF command_lower = "echo"
            THEN Portfolio("")
        ELSE NotPortfolio

(***************************************************************************)
(* run_command                                                             *)
(***************************************************************************)
\* timeout=15 of subprocess.run, in seconds
TIMEOUT == 15

\* what get_system_info returns: the report, or the message of its except
\* clause
SysInfoOutputs == {"<system information>", "Error retrieving system information: <e>"}

\* the requests: no 'command' in the JSON body, a command that is not a
\* string, or a command string
CmdPieces ==
    {"about", "Resume", "date", "SysInfo", "echo", "Echo ", " ", "\n",
     "hi; rm -rf /", "echo hi; rm -rf /", "ls", "ls ", "-la", "cat ",
     "/etc/passwd", "rm ", ";", "'"}

Requests ==
    {[kind |-> "missing", command |-> ""], [kind |-> "nonstring", command |-> ""]}
        \cup [kind : {"string"}, command : Concats(CmdPieces, MaxCmdPieces)]

RejectionOutput == "Error: Command not allowed. Only safe read-only commands are permitted."

\* What the handler does up to its first return or up to subprocess.run:
\* the functions it called, the result of is_command_safe if it was called,
\* and either the response it returns or the argv it hands to subprocess.run.
Return(called, validation, code, output, status) ==
    [calls |-> called, outcome |-> validation, spawn |-> FALSE, argv |-> <<>>,
     response |-> [code |-> code, output |-> output, status |-> status]]

Run(called, validation, argv) ==
    [calls |-> called, outcome |-> validation, spawn |-> TRUE, argv |-> argv,
     response |-> NoResponse]

\* run_command with the status code left out of the rejection's return
run_command_rejects_with_200(request, sysinfo) ==
    IF request.kind = "missing"
        THEN Return(<<>>, NoOutcome, 400, "Error: No command provided", 1)
    ELSE IF request.kind = "nonstring"
        THEN Return(<<>>, NoOutcome, 500, "Server error: <e>", 1)
    ELSE
    LET command == strip(request.command)
        portfolio == handle_portfolio_command(command)
        validation == is_command_safe(command)
    IN  IF command = ""
            THEN Return(<<>>, NoOutcome, 200, "", 0)
        ELSE IF portfolio.is_portfolio_cmd
            THEN Return(<<"handle_portfolio_command">>, NoOutcome,
                        200, portfolio.output, 0)
        ELSE IF lower(command) = "sysinfo"
            THEN Return(<<"handle_portfolio_command", "get_system_info">>, NoOutcome,
                        200, sysinfo, 0)
        ELSE IF ~ validation.is_safe \/ validation.is_none
            THEN Return(<<"handle_portfolio_command", "is_command_safe">>, validation,
                        200, RejectionOutput, 1)
        ELSE Run(<<"handle_portfolio_command", "is_command_safe", "subprocess.run">>,
                 validation, validation.safe_args)

\* run_command without the `if not command` return of lines 342-343
run_command_no_empty_return(request, sysinfo) ==
    IF request.kind = "missing"
        THEN Return(<<>>, NoOutcome, 400, "Error: No command provided", 1)
    ELSE IF request.kind = "nonstring"
        THEN Return(<<>>, NoOutcome, 500, "Server error: <e>", 1)
    ELSE
    LET command == strip(request.command)
        portfolio == handle_portfolio_command(command)
        validation == is_command_safe(command)
    IN  IF portfolio.is_portfolio_cmd
            THEN Return(<<"handle_portfolio_command">>, NoOutcome,
                        200, portfolio.output, 0)
        ELSE IF lower(command) = "sysinfo"
            THEN Return(<<"handle_portfolio_command", "get_system_info">>, NoOutcome,
                        200, sysinfo, 0)
        ELSE IF ~ validation.is_safe \/ validation.is_none
            THEN Return(<<"handle_portfolio_command", "is_command_safe">>, validation,
                        403, RejectionOutput, 1)
        ELSE Run(<<"handle_portfolio_command", "is_command_safe", "subprocess.run">>,
                 validation, validation.safe_args)

\* run_command with the security check moved in front of the portfolio and
\* sysinfo commands
run_command_validates_first(request, sysinfo) ==
    IF request.kind = "missing"
        THEN Return(<<>>, NoOutcome, 400, "Error: No command provided", 1)
    ELSE IF request.kind = "nonstring"
        THEN Return(<<>>, NoOutcome, 500, "Server error: <e>", 1)
    ELSE
    LET command == strip(request.command)
        portfolio == handle_portfolio_command(command)
        validation == is_command_safe(command)
    IN  IF command = ""
            THEN Return(<<>>, NoOutcome, 200, "", 0)
        ELSE IF ~ validation.is_safe \/ validation.is_none
            THEN Return(<<"is_command_safe">>, validation,
                        403, RejectionOutput, 1)
        ELSE IF portfolio.is_portfolio_cmd
            THEN Return(<<"is_command_safe", "handle_portfolio_command">>, validation,
                        200, portfolio.output, 0)
        ELSE IF lower(command) = "sysinfo"
            THEN Return(<<"is_command_safe", "handle_portfolio_command",
                          "get_system_info">>, validation, 200, sysinfo, 0)
        ELSE Run(<<"is_command_safe", "handle_portfolio_command", "subprocess.run">>,
                 validation, validation.safe_args)

run_command(request, sysinfo) ==
    IF request.kind = "missing"
        THEN Return(<<>>, NoOutcome, 400, "Error: No command provided", 1)
    ELSE IF request.kind = "nonstring"
        \* data['command'].strip() raises; the outer except clause answers
        THEN Return(<<>>, NoOutcome, 500, "Server error: <e>", 1)
    ELSE
    LET command == strip(request.command)
        portfolio == handle_portfolio_command(command)
        validation == is_command_safe(command)
    IN  IF command = ""
            THEN Return(<<>>, NoOutcome, 200, "", 0)
        ELSE IF portfolio.is_portfolio_cmd
            THEN Return(<<"handle_portfolio_command">>, NoOutcome,
                        200, portfolio.output, 0)
        ELSE IF lower(command) = "sysinfo"
            THEN Return(<<"handle_portfolio_command", "get_system_info">>, NoOutcome,
                        200, sysinfo, 0)
        ELSE IF ~ validation.is_safe \/ validation.is_none
            THEN Return(<<"handle_portfolio_command", "is_command_safe">>, validation,
                        403, RejectionOutput, 1)
        ELSE Run(<<"handle_portfolio_command", "is_command_safe", "subprocess.run">>,
                 validation, validation.safe_args)

Init ==
    /\ pc = "idle"
    /\ data = [kind |-> "missing", command |-> ""]
    /\ outcome = NoOutcome
    /\ calls = <<>>
    /\ response = NoResponse
    /\ nresponses = 0
    /\ child = NoChild
    /\ clock = 0

\* a response is returned to the client
Respond(code, output, status) ==
    /\ response' = [code |-> code, output |-> output, status |-> status]
    /\ nresponses' = nresponses + 1
    /\ pc' = "responded"

\* A request that the handler answers without reaching subprocess.run.
Answer ==
    /\ pc = "idle"
    /\ \E request \in Requests, sysinfo \in SysInfoOutputs :
          \E r \in {run_command(request, sysinfo)} :
              /\ ~ r.spawn
              /\ data' = request
              /\ calls' = r.calls
              /\ outcome' = r.outcome
              /\ Respond(r.response.code, r.response.output, r.response.status)
    /\ UNCHANGED <<child, clock>>

\* A request that reaches subprocess.run, and the child process starts.
Spawn ==
    /\ pc = "idle"
    /\ \E request \in Requests, sysinfo \in SysInfoOutputs :
          \E r \in {run_command(request, sysinfo)} :
              /\ r.spawn
              /\ r.argv # <<>>
              /\ data' = request
              /\ calls' = r.calls
              /\ outcome' = r.outcome
              /\ child' = [argv |-> r.argv, alive |-> TRUE, stdout |-> "", stderr |-> ""]
    /\ pc' = "running"
    /\ clock' = 0
    /\ UNCHANGED <<response, nresponses>>

\* A request that reaches subprocess.run, which raises before a child runs
\* (no such executable, permission denied, an empty argv); the inner
\* `except Exception` answers.
SpawnFails ==
    /\ pc = "idle"
    /\ \E request \in Requests, sysinfo \in SysInfoOutputs :
          \E r \in {run_command(request, sysinfo)} :
              /\ r.spawn
              /\ data' = request
              /\ calls' = r.calls
              /\ outcome' = r.outcome
              /\ child' = [argv |-> r.argv, alive |-> FALSE, stdout |-> "", stderr |-> ""]
    /\ Respond(500, "Error executing command: <e>", 1)
    /\ UNCHANGED clock

\* the child writes to its standard output or standard error
ChildWrite ==
    /\ pc = "running"
    /\ child.alive
    /\ Len(child.stdout) + Len(child.stderr) < MaxChunks
    /\ \/ child' = [child EXCEPT !.stdout = @ \o "o"]
       \/ child' = [child EXCEPT !.stderr = @ \o "e"]
    /\ UNCHANGED <<pc, data, outcome, calls, response, nresponses, clock>>

\* lines 376-383: stdout and stderr, with a newline between them if both
\* are not empty
combined_output(stdout, stderr) ==
    LET output == IF stdout # "" THEN stdout ELSE ""
    IN  IF stderr # ""
        THEN (IF output # "" THEN output \o "\n" ELSE output) \o stderr
        ELSE output

\* the child exits before the timeout and subprocess.run returns
ChildExit ==
    /\ pc = "running"
    /\ child.alive
    /\ clock < TIMEOUT
    /\ \E returncode \in {0, 1} :
          Respond(200, combined_output(child.stdout, child.stderr), returncode)
    /\ child' = [child EXCEPT !.alive = FALSE]
    /\ UNCHANGED <<data, outcome, calls, clock>>

\* the child exits before the timeout, and subprocess.run raises while it
\* collects the output (text=True: output that does not decode); the inner
\* `except Exception` answers
OutputFails ==
    /\ pc = "running"
    /\ child.alive
    /\ clock < TIMEOUT
    /\ Respond(500, "Error executing command: <e>", 1)
    /\ child' = [child EXCEPT !.alive = FALSE]
    /\ UNCHANGED <<data, outcome, calls, clock>>

\* a second passes while subprocess.run waits for the child
Tick ==
    /\ pc = "running"
    /\ clock < TIMEOUT
    /\ clock' = clock + 1
    /\ UNCHANGED <<pc, data, outcome, calls, response, nresponses, child>>

\* the timeout expires and what the child wrote so far is returned as if
\* the child had exited
TimeoutReturnsPartialOutput ==
    /\ pc = "running"
    /\ child.alive
    /\ clock = TIMEOUT
    /\ child' = [child EXCEPT !.alive = FALSE]
    /\ Respond(200, combined_output(child.stdout, child.stderr), 1)
    /\ UNCHANGED <<data, outcome, calls, clock>>

\* the timeout expires: subprocess.run kills the child and raises
\* TimeoutExpired, and the except clause of lines 387-391 answers
TimeoutExpired ==
    /\ pc = "running"
    /\ child.alive
    /\ clock = TIMEOUT
    /\ child' = [child EXCEPT !.alive = FALSE]
    /\ Respond(408, "Error: Command timed out after 30 seconds", 1)
    /\ UNCHANGED <<data, outcome, calls, clock>>

\* the next request: nothing of the last one is kept
NextRequest ==
    /\ pc = "responded"
    /\ pc' = "idle"
    /\ data' = [kind |-> "missing", command |-> ""]
    /\ outcome' = NoOutcome
    /\ calls' = <<>>
    /\ response' = NoResponse
    /\ nresponses' = 0
    /\ child' = NoChild
    /\ clock' = 0

Next ==
    \/ Answer
    \/ Spawn
    \/ SpawnFails
    \/ ChildWrite
    \/ ChildExit
    \/ OutputFails
    \/ Tick
    \/ TimeoutExpired
    \/ NextRequest

Spec == Init /\ [][Next]_vars

\* Time passes, and subprocess.run returns or raises once the child has
\* exited or the timeout has expired.
LiveSpec ==
    /\ Spec
    /\ WF_vars(Tick)
    /\ WF_vars(TimeoutExpired)

(***************************************************************************)
(* Properties of the validator, checked under SpecValidate                 *)
(***************************************************************************)
\* the raw string of the state, tokenized as is_command_safe tokenizes it:
\* [error, parts]
Lexed == shlex_split(strip(data.command))

Validated == pc = "validated"

\* the forbidden metacharacter set of the specification (the backquote
\* cannot be written here)
Metacharacters == {";", "&", "|", "$", "(", ")", "{", "}", "\\"}

HasMetacharacter(s) == \E i \in 1..Len(s) : Char(s, i) \in Metacharacters

\* C1: no element of an accepted argv contains a forbidden metacharacter,
\* and a command line with an argument token that contains one is rejected
\* whatever the command and whatever the flag and path checks say of it.
C1_NoMetacharacterInArgv ==
    Validated =>
        /\ outcome.is_safe =>
              \A i \in 1..Len(outcome.safe_args) :
                  ~ HasMetacharacter(outcome.safe_args[i])
        /\ \A lexed \in {Lexed} :
              (/\ ~ lexed.error
               /\ \E i \in 2..Len(lexed.parts) : HasMetacharacter(lexed.parts[i]))
                  => ~ outcome.is_safe

\* an accepted command line with arguments
C1_Witness ==
    /\ Validated
    /\ outcome.is_safe
    /\ Len(outcome.safe_args) >= 3

\* C2: every raw string that contains a forbidden metacharacter anywhere
\* is rejected.
C2_MetacharacterAnywhereRejected ==
    (Validated /\ HasMetacharacter(data.command)) => ~ outcome.is_safe

\* the policy table's commands with an empty allowed-flag list
NoFlagCommands == {c \in DOMAIN SAFE_COMMANDS : SAFE_COMMANDS[c] = {}}

\* the command line lexed runs a command that allows no flag
RunsNoFlagCommand(lexed) ==
    /\ ~ lexed.error
    /\ lexed.parts # <<>>
    /\ lexed.parts[1] \in NoFlagCommands

\* a dash followed by one or more ASCII letters or digits, and possibly
\* one final newline
IsDashAlnum(arg) ==
    LET n == IF Len(arg) >= 1 /\ Char(arg, Len(arg)) = "\n" THEN Len(arg) - 1 ELSE Len(arg)
    IN  \E m \in {n, Len(arg)} :
            /\ m >= 2
            /\ Char(arg, 1) = "-"
            /\ \A i \in 2..m : Char(arg, i) \in AlnumChars

\* C3 as stated: a command that allows no flag is rejected with any
\* argument token that begins with a dash.
C3_AnyDashTokenRejected ==
    Validated =>
        \A lexed \in {Lexed} :
            (/\ RunsNoFlagCommand(lexed)
             /\ \E i \in 2..Len(lexed.parts) : startswith(lexed.parts[i], "-"))
                => ~ outcome.is_safe

\* C3 amended: a command that allows no flag is rejected with any argument
\* token that begins with a dash and is not a dash followed by letters and
\* digits only.
C3_OddDashTokenRejected ==
    Validated =>
        \A lexed \in {Lexed} :
            (/\ RunsNoFlagCommand(lexed)
             /\ \E i \in 2..Len(lexed.parts) :
                    /\ startswith(lexed.parts[i], "-")
                    /\ ~ IsDashAlnum(lexed.parts[i]))
                => ~ outcome.is_safe

\* a command that allows no flag, rejected for a dash token that passes the
\* metacharacter and path checks
C3_Witness ==
    /\ Validated
    /\ \E lexed \in {Lexed} :
          /\ RunsNoFlagCommand(lexed)
          /\ lexed.parts[1] = "pwd"
          /\ Len(lexed.parts) = 2
          /\ startswith(lexed.parts[2], "-")
          /\ ~ IsDashAlnum(lexed.parts[2])
          /\ ~ HasMetacharacter(lexed.parts[2])
    /\ ~ outcome.is_safe

RunsCat(lexed) ==
    /\ ~ lexed.error
    /\ lexed.parts # <<>>
    /\ lexed.parts[1] = "cat"

UnlistedAbsolutePath(arg) == startswith(arg, "/") /\ arg \notin SAFE_READ_PATHS

\* C4 as stated: cat is rejected with an absolute path outside
\* SAFE_READ_PATHS, and with a token that contains '..' or contains '~'.
C4_TildeAnywhereRejected ==
    Validated =>
        \A lexed \in {Lexed} :
            (/\ RunsCat(lexed)
             /\ \E i \in 2..Len(lexed.parts) :
                    \/ UnlistedAbsolutePath(lexed.parts[i])
                    \/ contains(lexed.parts[i], "..")
                    \/ contains(lexed.parts[i], "~"))
                => ~ outcome.is_safe

\* C4 amended: cat is rejected with an absolute path outside
\* SAFE_READ_PATHS, and with a token that contains '..' or begins with '~'.
C4_LeadingTildeRejected ==
    Validated =>
        \A lexed \in {Lexed} :
            (/\ RunsCat(lexed)
             /\ \E i \in 2..Len(lexed.parts) :
                    \/ UnlistedAbsolutePath(lexed.parts[i])
                    \/ contains(lexed.parts[i], "..")
                    \/ startswith(lexed.parts[i], "~"))
                => ~ outcome.is_safe

\* cat rejected for a relative path with '..' in it
C4_Witness ==
    /\ Validated
    /\ \E lexed \in {Lexed} :
          /\ RunsCat(lexed)
          /\ Len(lexed.parts) = 2
          /\ contains(lexed.parts[2], "..")
          /\ ~ startswith(lexed.parts[2], "/")
          /\ ~ startswith(lexed.parts[2], "~")
          /\ ~ HasMetacharacter(lexed.parts[2])
          /\ ~ startswith(lexed.parts[2], "-")
    /\ ~ outcome.is_safe

\* the keys of the policy table
PolicyKeys ==
    {"ls", "pwd", "whoami", "id", "cat", "head", "tail", "wc", "file", "stat",
     "find", "ps", "top", "jobs", "uname", "uptime", "free", "df", "du",
     "lscpu", "lsblk", "mount", "ping", "host", "nslookup", "ifconfig", "ip",
     "date", "cal", "grep", "sort", "uniq", "cut", "env", "printenv", "which",
     "whereis", "type", "echo", "printf", "basename", "dirname", "realpath",
     "readlink"}

\* C5: a raw string whose first token is not a key of the policy table is
\* rejected whatever follows, and the first element of an accepted argv that
\* is not empty is a key of the policy table.
C5_FirstTokenInPolicyTable ==
    Validated =>
        /\ \A lexed \in {Lexed} :
              (~ lexed.error /\ lexed.parts # <<>> /\ lexed.parts[1] \notin PolicyKeys)
                  => ~ outcome.is_safe
        /\ (outcome.is_safe /\ outcome.safe_args # <<>>)
              => outcome.safe_args[1] \in PolicyKeys

\* an unknown command with arguments that pass every argument check
C5_Witness ==
    /\ Validated
    /\ \E lexed \in {Lexed} :
          /\ ~ lexed.error
          /\ Len(lexed.parts) >= 2
          /\ lexed.parts[1] = "rm"
          /\ \A i \in 2..Len(lexed.parts) :
                /\ ~ HasMetacharacter(lexed.parts[i])
                /\ ~ startswith(lexed.parts[i], "-")
                /\ ~ startswith(lexed.parts[i], "~")
    /\ ~ outcome.is_safe

\* C9: the argv of an accepted command line that is not empty is the token
\* sequence of the tokenizer, unchanged.
C9_ArgvIsTokens ==
    (Validated /\ outcome.is_safe) =>
        \A lexed \in {Lexed} :
            lexed.parts # <<>> => outcome.safe_args = lexed.parts

\* the ping scenario, accepted with its four tokens
C9_Witness ==
    /\ Validated
    /\ data.command = "ping -c 3 example.com"
    /\ outcome.is_safe
    /\ outcome.safe_args = <<"ping", "-c", "3", "example.com">>

(***************************************************************************)
(* Properties of run_command, checked under Spec and LiveSpec              *)
(***************************************************************************)
Called(f) == \E i \in 1..Len(calls) : calls[i] = f

\* a request with a command string has been received
Received == pc # "idle" /\ data.kind = "string"

RejectionResponse ==
    [code |-> 403,
     output |-> "Error: Command not allowed. Only safe read-only commands are permitted.",
     status |-> 1]

\* the validator rejects the command of the request
ValidationRejects == ~ is_command_safe(data.command).is_safe

\* The command of the request is one the portfolio and sysinfo commands
\* answer: trimmed and in lower case it is a portfolio keyword, 'date',
\* 'echo' or 'sysinfo', or it starts with 'echo '.
ShortCircuited ==
    LET text == lower(strip(data.command))
    IN  \/ text \in {"about", "resume", "skills", "projects", "contact",
                     "education", "experience", "achievements"}
        \/ text \in {"date", "echo", "sysinfo"}
        \/ startswith(text, "echo ")

NoChildSpawned == ~ Called("subprocess.run") /\ child = NoChild

\* C6 as stated: a request whose command the validator rejects spawns no
\* child and is answered 403 with the fixed body.
C6_RejectedAnswered403 ==
    (Received /\ ValidationRejects) =>
        /\ pc = "responded"
        /\ response = RejectionResponse
        /\ NoChildSpawned

\* C6 amended: a request whose command is not answered by the portfolio and
\* sysinfo commands and which the validator rejects spawns no child and is
\* answered 403 with the fixed body.
C6_RejectedAtGateAnswered403 ==
    (Received /\ ~ ShortCircuited /\ ValidationRejects) =>
        /\ pc = "responded"
        /\ response = RejectionResponse
        /\ NoChildSpawned

\* a command of the policy table rejected for its argument
C6_Witness ==
    /\ pc = "responded"
    /\ data = [kind |-> "string", command |-> "cat /etc/passwd"]
    /\ Called("is_command_safe")
    /\ response = RejectionResponse
    /\ NoChildSpawned

IsBlank(s) == \A i \in 1..Len(s) : Char(s, i) \in {" ", "\t", "\n", "\r", "\f"}

\* C7: an empty or whitespace-only command is answered with output '' and
\* status 0 without subprocess.run, and subprocess.run is never called with
\* an empty argv.
C7_BlankNeverExecuted ==
    /\ (Received /\ IsBlank(data.command)) =>
          /\ pc = "responded"
          /\ response = [code |-> 200, output |-> "", status |-> 0]
          /\ NoChildSpawned
    /\ Called("subprocess.run") => child.argv # <<>>

\* a whitespace-only command, answered
C7_Witness ==
    /\ pc = "responded"
    /\ data.kind = "string"
    /\ Len(data.command) >= 2
    /\ IsBlank(data.command)
    /\ response = [code |-> 200, output |-> "", status |-> 0]

TimeoutResponse ==
    [code |-> 408, output |-> "Error: Command timed out after 30 seconds", status |-> 1]

\* C8: when the timeout expires with the child still running, the child is
\* terminated and the answer is 408 with status 1, whatever the child wrote;
\* a request is never answered twice, and every request that spawned a child
\* is eventually answered, with 200, 408 or 500.
C8_TimeoutAndOneResponse ==
    /\ [][(pc = "running" /\ child.alive /\ clock = TIMEOUT /\ pc' # "running")
            => (response' = TimeoutResponse /\ ~ child'.alive)]_vars
    /\ [](pc = "running" => nresponses = 0)
    /\ [](pc = "responded" =>
            /\ nresponses = 1
            /\ ~ child.alive
            /\ Called("subprocess.run") => response.code \in {200, 408, 500})
    /\ (pc = "running") ~> (pc = "responded")

\* a child that wrote output and was still running at the timeout
C8_Witness ==
    /\ pc = "responded"
    /\ clock = TIMEOUT
    /\ child.stdout # ""
    /\ response = TimeoutResponse

\* C10: a command that the portfolio and sysinfo commands answer is
\* answered 200 with status 0, is_command_safe is not called and no child
\* is spawned; 'echo hi; rm -rf /' is answered with the text after 'echo '.
C10_ShortCircuitBeforeGate ==
    (Received /\ ~ IsBlank(data.command) /\ ShortCircuited) =>
        /\ pc = "responded"
        /\ response.code = 200
        /\ response.status = 0
        /\ ~ Called("is_command_safe")
        /\ NoChildSpawned
        /\ data.command = "echo hi; rm -rf /" => response.output = "hi; rm -rf /"

\* the echo line with metacharacters, which the validator rejects, answered
C10_Witness ==
    /\ pc = "responded"
    /\ data = [kind |-> "string", command |-> "echo hi; rm -rf /"]
    /\ ValidationRejects
    /\ response = [code |-> 200, output |-> "hi; rm -rf /", status |-> 0]

====
